---- MODULE Spec2Model ----
(***************************************************************************)
(* State-machine model of the SHEIN stock broadcaster (src/main.py): the  *)
(* snapshot store (db_load / db_save), the poll loop (stock_poll_loop)    *)
(* and the two cycle handlers (handle_wave / handle_no_wave).             *)
(*                                                                         *)
(* A product is represented by its "code" field: a number in 1..MaxId, or *)
(* 0 for a product whose code is missing or empty (falsy in Python).      *)
(* The snapshot is the pair (last_total_results, prev_deliverable), the   *)
(* latter kept as the sorted list db_replace_prev_deliverable_set writes. *)
(*                                                                         *)
(* Spec, HistSpec and FairSpec are the program as it runs: one poll loop. *)
(* OverlapSpec runs the loop body in several threads to show what db_lock *)
(* does and does not exclude. PoolSpec counts the work items of the two   *)
(* ThreadPoolExecutor blocks of a cycle. SendSpec is telegram_send_text / *)
(* telegram_send_photo attempt by attempt. PageSpec is fetch_all_products  *)
(* request by request.                                                     *)
(***************************************************************************)
EXTENDS Integers, Sequences, FiniteSets, TLC

\* ------------------------------------------------------------ bounds
MaxId == 2          \* product codes are 1..MaxId
MaxProducts == 2    \* a fetched catalog holds at most MaxProducts records
MaxTotal == 2       \* the catalog reports totalResults in 0..MaxTotal
MaxIoErrors == 1    \* I/O errors the file system raises in one run
MaxThreads == 2     \* poll threads, when the loop is taken to overlap
MaxPages == 14      \* pages after page 0 the catalog can report
MaxItems == 22      \* products a fan-out is given, when only counted
MaxCatalog == 81    \* the largest totalResults page 0 reports, when the
                    \* pages of a fetch are told apart
MaxTotalPages == 3  \* the largest totalPages page 0 reports

\* ------------------------------------------------------------ program constants
DEFAULT_PAGE_SIZE == 40
MAX_PAGE_FETCH_WORKERS == 12
SVC_MAX_WORKERS == 20
TG_RETRY_LIMIT == 3
NumBotTokens == 5   \* len(BOT_TOKENS)

Codes == 0 .. MaxId
Ids == 1 .. MaxId
Totals == 0 .. MaxTotal
None == 0 - 1       \* "no value" for integer-valued history fields

\* a "code" field that is a JSON array or object: truthy, but set.add and
\* the in test of a set raise TypeError on it
Unhashable == MaxId + 1

\* what the "code" field of a fetched product can be
ProductCodes == Codes \cup {Unhashable}

\* All product lists fetch_all_products can return (pages that failed to
\* fetch contribute nothing, so any list up to the bound can come back).
ProductLists == UNION {[1 .. n -> ProductCodes] : n \in 0 .. MaxProducts}

VARIABLES
    pc,                      \* position of the main thread
    ret,                     \* where db_save returns to
    db_cache,                \* the in-memory snapshot (global db_cache)
    file,                    \* DB_FILE on disk
    tmp,                     \* DB_FILE + ".tmp" on disk
    products,                \* this cycle's fetched product list
    total_results_now,       \* this cycle's reported total
    prev_total_results,      \* last_total_results read at line 549 / 495
    prev_deliverable_set,    \* handle_wave local
    session_announced,       \* handle_wave local
    current_deliverable_set, \* handle_wave / handle_no_wave local
    futs,                    \* the fan-out: one future per product
    \* ---- history (not program state) ----
    notes,                   \* notification attempts of this cycle, in order
    cyc,                     \* the snapshot, store and history at cycle start
    how,                     \* how this cycle's handler ended
    saves,                   \* db_save calls made in this cycle
    waved,                   \* the total the latest wave got onto the disk
    announcedPrior,          \* ids announced in earlier cycles that ended well
    ioerrs,                  \* I/O errors raised so far
    track,                   \* whether waved, announcedPrior and cyc's last
                             \* three fields are recorded in this run
    \* ---- the poll loop run by several threads at once ----
    db_lock,                 \* holder of the global db_lock, 0 when free
    cy,                      \* the cycle each such thread is running
    \* ---- the executors of a cycle, their work only counted ----
    pool,                    \* the ThreadPoolExecutor at work, if any
    \* ---- one Telegram send, attempt by attempt ----
    rr_index,                \* the global rr_index, modulo len(BOT_TOKENS)
    tg,                      \* the telegram_send_* call in progress, if any
    \* ---- one fetch_all_products call, request by request ----
    fetch                    \* its locals and the page requests it has made

vars == <<pc, ret, db_cache, file, tmp, products, total_results_now,
          prev_total_results, prev_deliverable_set, session_announced,
          current_deliverable_set, futs, notes, cyc, how, saves, waved,
          announcedPrior, ioerrs, track, db_lock, cy, pool, rr_index, tg,
          fetch>>

\* the overlapped cycles and their lock: the single loop never contends for
\* db_lock, so its steps leave both alone
overlap == <<db_lock, cy>>

\* the history and the environment's budget, which most steps leave alone
\* the sender's variables: the loop's steps take a send as one step
sender == <<rr_index, tg>>

\* the page requests of a fetch: the loop's steps take a fetch as one step
pager == <<fetch>>

\* what the steps of the loop never touch
aside == <<overlap, pool, sender, pager>>

hist == <<waved, announcedPrior, ioerrs, track, aside>>

prog == <<products, total_results_now, prev_total_results,
          prev_deliverable_set, session_announced, current_deliverable_set,
          futs>>

\* ------------------------------------------------------------ db helpers
\* sorted(list(codes_set)): the ascending list of a set of codes
RECURSIVE sorted(_)
sorted(S) ==
    IF S = {} THEN <<>>
    ELSE LET m == CHOOSE x \in S : \A y \in S : x <= y
         IN  <<m>> \o sorted(S \ {m})

\* set(list)
set(s) == {s[i] : i \in 1 .. Len(s)}

ZeroDb == [ltr |-> 0, prev |-> <<>>]

\* Content of a file on disk: st = "missing" | "unreadable" | "leftover" | "ok";
\* db is the record it holds when st = "ok" (ZeroDb otherwise, as a filler).
\* Leftover is the temporary file a save that did not finish leaves behind,
\* partly or fully written: the program never reads it, the next save
\* truncates it.
NoFile == [st |-> "missing", db |-> ZeroDb]
Unreadable == [st |-> "unreadable", db |-> ZeroDb]
Leftover == [st |-> "leftover", db |-> ZeroDb]
Stored(db) == [st |-> "ok", db |-> db]

db_load_reset(f) == ZeroDb

db_load(f) == IF f.st = "ok" THEN f.db ELSE ZeroDb

db_get_last_total_results(db) == db.ltr

db_set_last_total_results(db, val) == [db EXCEPT !.ltr = val]

db_get_prev_deliverable_set(db) == set(db.prev)

db_replace_prev_deliverable_set(db, codes_set) ==
    [db EXCEPT !.prev = sorted(codes_set)]

\* last_total_results held by a file, None when it holds no readable record
DiskTotal(f) == IF f.st = "ok" THEN f.db.ltr ELSE None


\* ------------------------------------------------------------ history helpers
\* One notification attempt: a telegram_send_* call and what it returned
\* (ok), with what the store and the cache held then. A run that records the
\* history across cycles does not tell a delivered attempt from a failed one.
Note(kind, idx, code, ok) ==
    [kind |-> kind, idx |-> idx, code |-> code, ok |-> (ok \/ track),
     disk |-> DiskTotal(file), mem |-> db_cache.ltr, saved |-> saves]

ItemNotes == {i \in 1 .. Len(notes) : notes[i].kind = "item"}
AggNotes == {i \in 1 .. Len(notes) : notes[i].kind = "agg"}
Noted == {notes[i].code : i \in ItemNotes}

\* the cycle's handler returned normally and the loop is at its sleep
Completed == pc = "sleep" /\ how = "returned"

\* announcedPrior once this cycle is over
EndAnnounced ==
    IF track /\ Completed THEN announcedPrior \cup Noted ELSE announcedPrior

\* The locals of a cycle before it has fetched anything.
FreshLocals ==
    /\ products' = <<>>
    /\ total_results_now' = 0
    /\ prev_total_results' = 0
    /\ prev_deliverable_set' = {}
    /\ session_announced' = {}
    /\ current_deliverable_set' = {}
    /\ futs' = <<>>

\* History bookkeeping at the top of the while loop (line 543).
\* db is the snapshot the cycle starts with; stored is the total the program
\* was left with: the cache's, or after a restart the one on the disk; boot
\* tells that the cycle is the first one of a process.
BeginCycle(db, stored, boot) ==
    /\ cyc' = [prev |-> set(db.prev), ltr |-> db.ltr, waved |-> waved,
               stored |-> IF track THEN stored ELSE None,
               boot |-> track /\ boot]
    /\ notes' = <<>>
    /\ how' = "running"
    /\ saves' = 0

\* No executor exists; phase tells where the main thread is: "idle" before
\* the fetch of page 0, "fetched" when fetch_all_products has returned.
\* With an executor at work phase is "pages" or "svc", and queued, running
\* and finished count its work items.
NoPool(phase) ==
    [phase |-> phase, queued |-> 0, running |-> 0, finished |-> 0]

\* no telegram_send_* call is in progress
NoSend ==
    [call |-> "none", at |-> "idle", attempt |-> 0, outcomes |-> <<>>,
     ret |-> "none"]

\* the page indexes a fetch can ask for
PageIndexes == 0 .. (MaxTotalPages + 1)

\* fetch_all_products has not been called: at is its position, requested
\* counts the plp_fetch_page calls made for each page index, remaining_pages
\* holds the pages whose page_worker has not made its request yet
NoFetch ==
    [at |-> "call", total_results_now |-> 0, total_pages_value |-> 0,
     last_page_index |-> 0, remaining_pages |-> {},
     requested |-> [i \in PageIndexes |-> 0]]

Threads == 1 .. MaxThreads

\* the locals of a cycle run by one of several poll threads, before its fetch:
\* at is its position, locked tells whether it is inside a with db_lock
\* block, secs counts the blocks it has entered, agg tells whether it has
\* sent the Stock Update
FreshCycle ==
    [at |-> "start", locked |-> FALSE, now |-> 0, prev_total |-> 0,
     prev_set |-> {}, cur |-> {}, agg |-> FALSE, secs |-> 0]

InitWith(t) ==
    /\ track = t
    /\ pc = "boot"
    /\ ret = "sleep"
    /\ db_cache = ZeroDb
    /\ file \in {NoFile, Unreadable}
    /\ tmp = NoFile
    /\ products = <<>>
    /\ total_results_now = 0
    /\ prev_total_results = 0
    /\ prev_deliverable_set = {}
    /\ session_announced = {}
    /\ current_deliverable_set = {}
    /\ futs = <<>>
    /\ notes = <<>>
    /\ cyc = [prev |-> {}, ltr |-> 0, waved |-> None, stored |-> None,
              boot |-> FALSE]
    /\ how = "running"
    /\ saves = 0
    /\ waved = None
    /\ announcedPrior = {}
    /\ ioerrs = 0
    /\ db_lock = 0
    /\ cy = [th \in Threads |-> FreshCycle]
    /\ pool = NoPool("idle")
    /\ rr_index = 0
    /\ tg = NoSend
    /\ fetch = NoFetch

Init == InitWith(FALSE)

\* the same program, with the history of waves and announcements recorded
HistInit == InitWith(TRUE)

\* ------------------------------------------------------------ main, poll loop
\* main(): db_cache = db_load(); stock_poll_loop() up to the top of its loop
\* (the startup message is a text send whose result is only logged).
main ==
    /\ pc = "boot"
    /\ db_cache' = db_load(file)
    /\ BeginCycle(db_cache', DiskTotal(file), TRUE)
    /\ pc' = "fetch"
    /\ UNCHANGED <<ret, file, tmp, prog, hist>>

\* where an exception raised inside the try block of the loop ends up
CaughtAtLoop_uncaught == "halted"

CaughtAtLoop == "sleep"

IsWave_ge(now, prev) == now >= prev

\* line 553: total_results_now > prev_total_results
IsWave(now, prev) == now > prev

AllRunning(prods) == [i \in 1 .. Len(prods) |-> "run"]

\* variant: a page 0 that cannot be fetched is taken for an empty catalog
FetchFirstPageFails_asEmpty ==
    /\ pc = "fetch"
    /\ products' = <<>>
    /\ total_results_now' = 0
    /\ how' = "fetchfail"
    /\ pc' = "nw_fan"
    /\ UNCHANGED <<ret, db_cache, file, tmp, prev_total_results,
                   prev_deliverable_set, session_announced,
                   current_deliverable_set, futs, notes, cyc, saves, hist>>

\* fetch_all_products raises: page 0 could not be fetched (line 237)
FetchFirstPageFails ==
    /\ pc = "fetch"
    /\ pc' = CaughtAtLoop
    /\ how' = "fetchfail"
    /\ UNCHANGED <<ret, db_cache, file, tmp, prog, notes, cyc, saves,
                   hist>>

\* variant: the new total is stored only with the final snapshot
PollWave_saveLater(total, prods) ==
    /\ pc = "fetch"
    /\ IsWave(total, db_get_last_total_results(db_cache))
    /\ products' = prods
    /\ total_results_now' = total
    /\ prev_total_results' = db_get_last_total_results(db_cache)
    /\ pc' = "wave_header"
    /\ UNCHANGED <<ret, db_cache, file, tmp, prev_deliverable_set,
                   session_announced, current_deliverable_set, futs, notes,
                   cyc, how, saves, hist>>

\* lines 546-556 and 418-421: the catalog is fetched, the total went up:
\* handle_wave stores the new total and calls db_save
PollWave(total, prods) ==
    /\ pc = "fetch"
    /\ IsWave(total, db_get_last_total_results(db_cache))
    /\ products' = prods
    /\ total_results_now' = total
    /\ prev_total_results' = db_get_last_total_results(db_cache)
    /\ db_cache' = db_set_last_total_results(db_cache, total)
    /\ saves' = saves + 1
    /\ pc' = "save_write"
    /\ ret' = "wave_header"
    /\ UNCHANGED <<file, tmp, prev_deliverable_set, session_announced,
                   current_deliverable_set, futs, notes, cyc, how, hist>>

\* lines 546-556 and 494-499: same total: handle_no_wave returns at once
PollTie(total, prods) ==
    /\ pc = "fetch"
    /\ ~IsWave(total, db_get_last_total_results(db_cache))
    /\ total = db_get_last_total_results(db_cache)
    /\ products' = prods
    /\ total_results_now' = total
    /\ prev_total_results' = db_get_last_total_results(db_cache)
    /\ how' = "returned"
    /\ pc' = "sleep"
    /\ UNCHANGED <<ret, db_cache, file, tmp, prev_deliverable_set,
                   session_announced, current_deliverable_set, futs, notes,
                   cyc, saves, hist>>

\* lines 546-556 and 494-511: the total changed but did not go up:
\* handle_no_wave submits one check per product
PollShrink(total, prods) ==
    /\ pc = "fetch"
    /\ ~IsWave(total, db_get_last_total_results(db_cache))
    /\ total # db_get_last_total_results(db_cache)
    /\ products' = prods
    /\ total_results_now' = total
    /\ prev_total_results' = db_get_last_total_results(db_cache)
    /\ current_deliverable_set' = {}
    /\ futs' = AllRunning(prods)
    /\ pc' = "nw_fan"
    /\ UNCHANGED <<ret, db_cache, file, tmp, prev_deliverable_set,
                   session_announced, notes, cyc, how, saves, hist>>

\* ------------------------------------------------------------ db_save
\* variant: the snapshot is dumped straight into DB_FILE
SaveWrite_inPlace(ok) ==
    /\ pc = "save_write"
    /\ ok \/ ioerrs < MaxIoErrors
    /\ ioerrs' = IF ok THEN ioerrs ELSE ioerrs + 1
    /\ file' = IF ok THEN Stored(db_cache) ELSE Leftover
    /\ pc' = ret
    /\ UNCHANGED <<ret, db_cache, tmp, prog, notes, cyc, how, saves,
                   waved, announcedPrior, track, aside>>

\* lines 120-122: open the temporary file and dump the snapshot into it;
\* an I/O error is logged and db_save returns (line 124)
SaveWrite(ok) ==
    /\ pc = "save_write"
    /\ ok \/ ioerrs < MaxIoErrors
    /\ ioerrs' = IF ok THEN ioerrs ELSE ioerrs + 1
    /\ tmp' = IF ok THEN Stored(db_cache) ELSE Leftover
    /\ pc' = IF ok THEN "save_replace" ELSE ret
    /\ UNCHANGED <<ret, db_cache, file, prog, notes, cyc, how, saves,
                   waved, announcedPrior, track, aside>>

\* line 123: os.replace(tmp, DB_FILE), or its failure (line 124)
SaveReplace(ok) ==
    /\ pc = "save_replace"
    /\ ok \/ ioerrs < MaxIoErrors
    /\ ioerrs' = IF ok THEN ioerrs ELSE ioerrs + 1
    /\ file' = IF ok THEN tmp ELSE file
    /\ tmp' = IF ok THEN NoFile ELSE Leftover
    /\ waved' = IF track /\ ok /\ ret = "wave_header"
                THEN tmp.db.ltr ELSE waved
    /\ pc' = ret
    /\ UNCHANGED <<ret, db_cache, prog, notes, cyc, how, saves,
                   announcedPrior, track, aside>>


\* ------------------------------------------------------------ handle_wave
\* The results a check can have for a product with this code: deliverable
\* True ("T"), False ("F"), None ("U": lines 275, 302, 306, 315, or no
\* servicability field), or the worker raised ("X"). A product without a
\* code is answered None without a request (line 274).
Outcomes(code) == IF code = 0 THEN {"U", "X"} ELSE {"T", "F", "U", "X"}

IsDeliverable_notFalse(r) == r \in {"T", "U"}

\* lines 456 and 519: svc.get("deliverable") is True
IsDeliverable(r) == r = "T"

ShouldAnnounce_prevOnly(code, prev_set, announced) == code \notin prev_set

ShouldAnnounce_sessionOnly(code, prev_set, announced) == code \notin announced

\* line 459
ShouldAnnounce(code, prev_set, announced) ==
    code \notin prev_set /\ code \notin announced

\* variant: no Stock Update text is sent
WaveHeader_noAggregate(ok) ==
    /\ pc = "wave_header"
    /\ prev_deliverable_set' = db_get_prev_deliverable_set(db_cache)
    /\ session_announced' = {}
    /\ current_deliverable_set' = {}
    /\ futs' = AllRunning(products)
    /\ pc' = "wave_fan"
    /\ UNCHANGED <<ret, db_cache, file, tmp, products, total_results_now,
                   prev_total_results, notes, cyc, how, saves, hist>>

\* lines 426-444: the Stock Update text is sent (its result ok is only
\* logged), the previous deliverable set is loaded, one check per product is
\* submitted
WaveHeader(ok) ==
    /\ pc = "wave_header"
    /\ notes' = Append(notes, Note("agg", 0, 0, ok))
    /\ prev_deliverable_set' = db_get_prev_deliverable_set(db_cache)
    /\ session_announced' = {}
    /\ current_deliverable_set' = {}
    /\ futs' = AllRunning(products)
    /\ pc' = "wave_fan"
    /\ UNCHANGED <<ret, db_cache, file, tmp, products, total_results_now,
                   prev_total_results, cyc, how, saves, hist>>

\* lines 445-453 and 471-478: a future completes and its product is skipped:
\* the worker raised, the product has no code, or it is not deliverable
WaveSkip(i, r) ==
    /\ pc = "wave_fan"
    /\ futs[i] = "run"
    /\ r \in Outcomes(products[i])
    /\ r = "X" \/ products[i] = 0 \/ ~IsDeliverable(r)
    /\ futs' = [futs EXCEPT ![i] = r]
    /\ UNCHANGED <<pc, ret, db_cache, file, tmp, products, total_results_now,
                   prev_total_results, prev_deliverable_set,
                   session_announced, current_deliverable_set, notes, cyc,
                   how, saves, hist>>

\* lines 456-459: deliverable, but already in the snapshot or already
\* announced in this wave
WaveSeen(i, r) ==
    /\ pc = "wave_fan"
    /\ futs[i] = "run"
    /\ r \in Outcomes(products[i])
    /\ r # "X" /\ products[i] \in Ids /\ IsDeliverable(r)
    /\ ~ShouldAnnounce(products[i], prev_deliverable_set, session_announced)
    /\ futs' = [futs EXCEPT ![i] = r]
    /\ current_deliverable_set' = current_deliverable_set \cup {products[i]}
    /\ UNCHANGED <<pc, ret, db_cache, file, tmp, products, total_results_now,
                   prev_total_results, prev_deliverable_set,
                   session_announced, notes, cyc, how, saves, hist>>

\* variant: the code is recorded only when its alert was delivered
RecordDeliverable_ifSent(cur, code, ok) ==
    IF ok THEN cur \cup {code} ELSE cur

\* line 457: the code is recorded before the alert is sent, whatever the
\* send returns afterwards
RecordDeliverable(cur, code, ok) == cur \cup {code}

\* lines 456-470: deliverable and new: the alert is built and sent.
\*   a = "sent":          the send returned ok (True or False), line 470 runs
\*   a = "render_raises": build_product_alert or pick_main_image raised on
\*                        the product's display fields, nothing was sent
\*   a = "log_raises":    the send returned ok, then the log line raised
\*                        (prod.get('name','?')[:60], name not a string)
WaveAlert(i, r, a, ok) ==
    /\ pc = "wave_fan"
    /\ futs[i] = "run"
    /\ r \in Outcomes(products[i])
    /\ r # "X" /\ products[i] \in Ids /\ IsDeliverable(r)
    /\ ShouldAnnounce(products[i], prev_deliverable_set, session_announced)
    /\ futs' = [futs EXCEPT ![i] = r]
    /\ a = "render_raises" => ok
    /\ current_deliverable_set' =
           RecordDeliverable(current_deliverable_set, products[i], ok)
    /\ notes' = IF a = "render_raises" THEN notes
                ELSE Append(notes, Note("item", i, products[i], ok))
    /\ session_announced' = IF a = "sent"
                            THEN session_announced \cup {products[i]}
                            ELSE session_announced
    /\ pc' = IF a = "sent" THEN pc ELSE "wave_abort"
    /\ UNCHANGED <<ret, db_cache, file, tmp, products, total_results_now,
                   prev_total_results, prev_deliverable_set, cyc, how, saves,
                   hist>>

\* line 457: deliverable, but current_deliverable_set.add(code) raises on a
\* code that cannot be hashed
WaveAddRaises(i, r) ==
    /\ pc = "wave_fan"
    /\ futs[i] = "run"
    /\ r \in Outcomes(products[i])
    /\ r # "X" /\ products[i] = Unhashable /\ IsDeliverable(r)
    /\ futs' = [futs EXCEPT ![i] = r]
    /\ pc' = "wave_abort"
    /\ UNCHANGED <<ret, db_cache, file, tmp, products, total_results_now,
                   prev_total_results, prev_deliverable_set,
                   session_announced, current_deliverable_set, notes, cyc,
                   how, saves, hist>>

\* the exception leaves the with block: the executor's shutdown lets the
\* workers still running finish; their results are dropped
AbortWorker(i) ==
    /\ pc \in {"wave_abort", "nw_abort"}
    /\ futs[i] = "run"
    /\ futs' = [futs EXCEPT ![i] = "D"]
    /\ UNCHANGED <<pc, ret, db_cache, file, tmp, products, total_results_now,
                   prev_total_results, prev_deliverable_set,
                   session_announced, current_deliverable_set, notes, cyc,
                   how, saves, hist>>

NoneRunning == \A i \in DOMAIN futs : futs[i] # "run"

PoolJoined_noWait == TRUE

\* ThreadPoolExecutor.__exit__ : shutdown(wait=True)
PoolJoined == NoneRunning

\* lines 558-559: the exception reaches the except clause of the loop
PollCatch ==
    /\ pc \in {"wave_abort", "nw_abort"}
    /\ PoolJoined
    /\ pc' = CaughtAtLoop
    /\ how' = "raised"
    /\ UNCHANGED <<ret, db_cache, file, tmp, prog, notes, cyc, saves,
                   hist>>

\* what handle_wave stores at line 482
WaveSnapshot_merge(db, codes_set) ==
    db_replace_prev_deliverable_set(db, set(db.prev) \cup codes_set)

WaveSnapshot_kept(db, codes_set) == db

WaveSnapshot(db, codes_set) == db_replace_prev_deliverable_set(db, codes_set)

\* lines 480-485: every future was consumed: the snapshot is replaced and saved
WaveJoin ==
    /\ pc = "wave_fan"
    /\ PoolJoined
    /\ db_cache' = WaveSnapshot(db_cache, current_deliverable_set)
    /\ saves' = saves + 1
    /\ how' = "returned"
    /\ pc' = "save_write"
    /\ ret' = "sleep"
    /\ UNCHANGED <<file, tmp, prog, notes, cyc, hist>>

\* ------------------------------------------------------------ handle_no_wave
\* variant: a shrink cycle alerts for a deliverable product as a wave does
NoWaveResult_announces(i, r) ==
    /\ pc = "nw_fan"
    /\ futs[i] = "run"
    /\ r \in Outcomes(products[i])
    /\ ~(r # "X" /\ products[i] = Unhashable /\ IsDeliverable(r))
    /\ futs' = [futs EXCEPT ![i] = r]
    /\ current_deliverable_set' =
           IF r # "X" /\ products[i] # 0 /\ IsDeliverable(r)
           THEN current_deliverable_set \cup {products[i]}
           ELSE current_deliverable_set
    /\ notes' = IF /\ r # "X" /\ products[i] # 0 /\ IsDeliverable(r)
                   /\ products[i] \notin db_get_prev_deliverable_set(db_cache)
                THEN Append(notes, Note("item", i, products[i], TRUE))
                ELSE notes
    /\ UNCHANGED <<pc, ret, db_cache, file, tmp, products, total_results_now,
                   prev_total_results, prev_deliverable_set,
                   session_announced, cyc, how, saves, hist>>

\* lines 512-520: a future completes; a deliverable product is recorded
NoWaveResult(i, r) ==
    /\ pc = "nw_fan"
    /\ futs[i] = "run"
    /\ r \in Outcomes(products[i])
    /\ ~(r # "X" /\ products[i] = Unhashable /\ IsDeliverable(r))
    /\ futs' = [futs EXCEPT ![i] = r]
    /\ current_deliverable_set' =
           IF r # "X" /\ products[i] # 0 /\ IsDeliverable(r)
           THEN current_deliverable_set \cup {products[i]}
           ELSE current_deliverable_set
    /\ UNCHANGED <<pc, ret, db_cache, file, tmp, products, total_results_now,
                   prev_total_results, prev_deliverable_set,
                   session_announced, notes, cyc, how, saves, hist>>

\* line 520: deliverable, but current_deliverable_set.add(code) raises on a
\* code that cannot be hashed: handle_no_wave is left by the exception
NoWaveAddRaises(i, r) ==
    /\ pc = "nw_fan"
    /\ futs[i] = "run"
    /\ r \in Outcomes(products[i])
    /\ r # "X" /\ products[i] = Unhashable /\ IsDeliverable(r)
    /\ futs' = [futs EXCEPT ![i] = r]
    /\ pc' = "nw_abort"
    /\ UNCHANGED <<ret, db_cache, file, tmp, products, total_results_now,
                   prev_total_results, prev_deliverable_set,
                   session_announced, current_deliverable_set, notes, cyc,
                   how, saves, hist>>

\* lines 522-526: the snapshot and the total are replaced and saved
NoWaveJoin ==
    /\ pc = "nw_fan"
    /\ PoolJoined
    /\ db_cache' = db_set_last_total_results(
                       db_replace_prev_deliverable_set(
                           db_cache, current_deliverable_set),
                       total_results_now)
    /\ saves' = saves + 1
    /\ how' = "returned"
    /\ pc' = "save_write"
    /\ ret' = "sleep"
    /\ UNCHANGED <<file, tmp, prog, notes, cyc, hist>>

\* ------------------------------------------------------------ loop, process
\* lines 561-563 and 543: the cycle is over; after the sleep the next begins
Sleep ==
    /\ pc = "sleep"
    /\ pc' = "fetch"
    /\ FreshLocals
    /\ announcedPrior' = EndAnnounced
    /\ BeginCycle(db_cache, db_cache.ltr, FALSE)
    /\ UNCHANGED <<ret, db_cache, file, tmp, waved, ioerrs, track, aside>>

\* The process is killed at any point and started again: memory is lost, the
\* files stay. Killed inside the write of the temporary file, that file may
\* be left partly written.
Crash ==
    /\ pc # "boot"
    /\ pc' = "boot"
    /\ ret' = "sleep"
    /\ db_cache' = ZeroDb
    /\ tmp' = IF pc \in {"save_write", "save_replace"} THEN Leftover ELSE tmp
    /\ FreshLocals
    /\ announcedPrior' = EndAnnounced
    /\ notes' = <<>>
    /\ how' = "running"
    /\ saves' = 0
    /\ UNCHANGED <<file, cyc, waved, ioerrs, track, aside>>

Results == {"T", "F", "U", "X"}

\* a step of the running program
Step ==
    \/ main
    \/ FetchFirstPageFails
    \/ \E total \in Totals, prods \in ProductLists :
          \/ PollWave(total, prods)
          \/ PollTie(total, prods)
          \/ PollShrink(total, prods)
    \/ \E ok \in BOOLEAN : SaveWrite(ok) \/ SaveReplace(ok)
    \/ \E ok \in BOOLEAN : WaveHeader(ok)
    \/ \E i \in DOMAIN futs, r \in Results :
          \/ WaveSkip(i, r)
          \/ WaveSeen(i, r)
          \/ WaveAddRaises(i, r)
          \/ NoWaveResult(i, r)
          \/ NoWaveAddRaises(i, r)
    \/ \E i \in DOMAIN futs, r \in Results, ok \in BOOLEAN,
          a \in {"sent", "render_raises", "log_raises"} :
             WaveAlert(i, r, a, ok)
    \/ \E i \in DOMAIN futs : AbortWorker(i)
    \/ PollCatch
    \/ WaveJoin
    \/ NoWaveJoin
    \/ Sleep

Next == Step \/ Crash

Spec == Init /\ [][Next]_vars

HistSpec == HistInit /\ [][Next]_vars

\* The interpreter schedules the main thread and the pool's workers, so a
\* step of the program that stays possible is eventually taken; nothing
\* obliges the process to be killed.
FairSpec == Spec /\ WF_vars(Step)


\* ------------------------------------------------------------ overlapped cycles
\* The body of the while loop of stock_poll_loop (lines 546-556, with
\* handle_wave and handle_no_wave) run by several threads on the one db_cache,
\* each with db_lock block taken as the code takes it. A thread's position
\* cy[t].at is the line of the with statement it is at or inside of.

\* what the single loop owns
single == <<pc, ret, prog, notes, cyc, how, saves, waved, announcedPrior,
            ioerrs, track, pool, sender, pager>>

LockFree_ignored == TRUE

\* threading.Lock: a with db_lock block is entered only while no thread is in one
LockFree == db_lock = 0

LockPoints == {"548", "419", "432", "481", "494", "522"}

\* thread t is inside the with db_lock block at line l
Inside(t, l) == cy[t].at = l /\ cy[t].locked

\* db_save(db_cache) called inside a with block: the rename happens or an
\* I/O error is swallowed
DbSaved(ok, db) ==
    /\ file' = IF ok THEN Stored(db) ELSE file
    /\ tmp' = IF ok THEN NoFile ELSE Leftover

\* line 546: fetch_all_products returns
OvFetch(t, total) ==
    /\ cy[t].at = "start"
    /\ cy' = [cy EXCEPT ![t].now = total, ![t].at = "548"]
    /\ UNCHANGED <<db_cache, file, tmp, db_lock, single>>

\* with db_lock: at lines 548, 419, 432, 481, 494 and 522
OvAcquire(t) ==
    /\ cy[t].at \in LockPoints
    /\ ~cy[t].locked
    /\ LockFree
    /\ db_lock' = t
    /\ cy' = [cy EXCEPT ![t].locked = TRUE, ![t].secs = @ + 1]
    /\ UNCHANGED <<db_cache, file, tmp, single>>

\* lines 548-556: the stored total is read and the handler is chosen
OvReadTotal(t) ==
    /\ Inside(t, "548")
    /\ db_lock' = 0
    /\ cy' = [cy EXCEPT
                 ![t].locked = FALSE,
                 ![t].prev_total = db_get_last_total_results(db_cache),
                 ![t].at = IF IsWave(cy[t].now,
                                     db_get_last_total_results(db_cache))
                           THEN "419" ELSE "494"]
    /\ UNCHANGED <<db_cache, file, tmp, single>>

\* lines 419-421: handle_wave stores the new total
OvStoreTotal(t, ok) ==
    /\ Inside(t, "419")
    /\ db_lock' = 0
    /\ db_cache' = db_set_last_total_results(db_cache, cy[t].now)
    /\ DbSaved(ok, db_cache')
    /\ cy' = [cy EXCEPT ![t].locked = FALSE, ![t].at = "428"]
    /\ UNCHANGED single

\* lines 427-429: the Stock Update text is sent
OvAggregate(t) ==
    /\ cy[t].at = "428"
    /\ cy' = [cy EXCEPT ![t].agg = TRUE, ![t].at = "432"]
    /\ UNCHANGED <<db_cache, file, tmp, db_lock, single>>

\* lines 432-433: the previous deliverable set is read
OvReadPrev(t) ==
    /\ Inside(t, "432")
    /\ db_lock' = 0
    /\ cy' = [cy EXCEPT ![t].locked = FALSE,
                        ![t].prev_set = db_get_prev_deliverable_set(db_cache),
                        ![t].at = "443"]
    /\ UNCHANGED <<db_cache, file, tmp, single>>

\* lines 443-478: the fan-out of the wave, as the set of ids that resolved True
OvWaveChecks(t, S) ==
    /\ cy[t].at = "443"
    /\ cy' = [cy EXCEPT ![t].cur = S, ![t].at = "481"]
    /\ UNCHANGED <<db_cache, file, tmp, db_lock, single>>

\* lines 481-485: the wave's snapshot replaces the old one
OvStoreWave(t, ok) ==
    /\ Inside(t, "481")
    /\ db_lock' = 0
    /\ db_cache' = WaveSnapshot(db_cache, cy[t].cur)
    /\ DbSaved(ok, db_cache')
    /\ cy' = [cy EXCEPT ![t].locked = FALSE, ![t].at = "done"]
    /\ UNCHANGED single

\* lines 494-499: handle_no_wave reads the stored total again; a tie returns
OvReadTotalAgain(t) ==
    /\ Inside(t, "494")
    /\ db_lock' = 0
    /\ cy' = [cy EXCEPT
                 ![t].locked = FALSE,
                 ![t].prev_total = db_get_last_total_results(db_cache),
                 ![t].at = IF cy[t].now = db_get_last_total_results(db_cache)
                           THEN "done" ELSE "510"]
    /\ UNCHANGED <<db_cache, file, tmp, single>>

\* lines 510-520: the fan-out of handle_no_wave
OvNoWaveChecks(t, S) ==
    /\ cy[t].at = "510"
    /\ cy' = [cy EXCEPT ![t].cur = S, ![t].at = "522"]
    /\ UNCHANGED <<db_cache, file, tmp, db_lock, single>>

\* lines 522-526: the snapshot and the total are replaced
OvStoreNoWave(t, ok) ==
    /\ Inside(t, "522")
    /\ db_lock' = 0
    /\ db_cache' = db_set_last_total_results(
                       db_replace_prev_deliverable_set(db_cache, cy[t].cur),
                       cy[t].now)
    /\ DbSaved(ok, db_cache')
    /\ cy' = [cy EXCEPT ![t].locked = FALSE, ![t].at = "done"]
    /\ UNCHANGED single

\* lines 561-563 and 543: the thread's next cycle
OvSleep(t) ==
    /\ cy[t].at = "done"
    /\ cy' = [cy EXCEPT ![t] = FreshCycle]
    /\ UNCHANGED <<db_cache, file, tmp, db_lock, single>>

OverlapNext ==
    \/ \E t \in Threads, total \in Totals : OvFetch(t, total)
    \/ \E t \in Threads : OvAcquire(t)
    \/ \E t \in Threads : OvReadTotal(t)
    \/ \E t \in Threads, ok \in BOOLEAN : OvStoreTotal(t, ok)
    \/ \E t \in Threads : OvAggregate(t)
    \/ \E t \in Threads : OvReadPrev(t)
    \/ \E t \in Threads, S \in SUBSET Ids : OvWaveChecks(t, S)
    \/ \E t \in Threads, ok \in BOOLEAN : OvStoreWave(t, ok)
    \/ \E t \in Threads : OvReadTotalAgain(t)
    \/ \E t \in Threads, S \in SUBSET Ids : OvNoWaveChecks(t, S)
    \/ \E t \in Threads, ok \in BOOLEAN : OvStoreNoWave(t, ok)
    \/ \E t \in Threads : OvSleep(t)

\* the poll loop run by MaxThreads threads at once on the snapshot main loaded
OverlapSpec == Init /\ [][OverlapNext]_vars


\* ------------------------------------------------------------ executors
\* The two ThreadPoolExecutor blocks of a cycle (lines 259-265 in
\* fetch_all_products, lines 443-445 / 510-512 in the handlers), with the
\* work items counted instead of told apart.

\* what the loop owns
loop_only == <<pc, ret, db_cache, file, tmp, prog, notes, cyc, how, saves,
               waved, announcedPrior, ioerrs, track>>

\* what the executors leave alone
loop == <<loop_only, overlap, sender, pager>>

max_workers_perItem(phase) == pool.queued + pool.running + 1

\* max_workers of the executor of a phase (lines 259, 443, 510)
max_workers(phase) ==
    IF phase = "pages" THEN MAX_PAGE_FETCH_WORKERS ELSE SVC_MAX_WORKERS

\* lines 237-260: page 0 came back and named n more pages; with n > 0 an
\* executor is made and one page_worker per page is submitted
SubmitPages(n) ==
    /\ pool.phase = "idle"
    /\ pool' = IF n = 0 THEN NoPool("fetched")
               ELSE [NoPool("pages") EXCEPT !.queued = n]
    /\ UNCHANGED loop

\* a thread of the executor takes a work item: the executor has at most
\* max_workers threads, each running one item at a time
WorkerStarts ==
    /\ pool.phase \in {"pages", "svc"}
    /\ pool.queued > 0
    /\ pool.running < max_workers(pool.phase)
    /\ pool' = [pool EXCEPT !.queued = @ - 1, !.running = @ + 1]
    /\ UNCHANGED loop

\* a work item returns or raises
WorkerEnds ==
    /\ pool.phase \in {"pages", "svc"}
    /\ pool.running > 0
    /\ pool' = [pool EXCEPT !.running = @ - 1, !.finished = @ + 1]
    /\ UNCHANGED loop

\* the with block is left (by its end or by an exception): shutdown(wait=True)
\* returns once every submitted item has run
PoolShutDown == pool.queued = 0 /\ pool.running = 0

\* lines 259-267: the page executor is left, fetch_all_products returns
JoinPages ==
    /\ pool.phase = "pages"
    /\ PoolShutDown
    /\ pool' = NoPool("fetched")
    /\ UNCHANGED loop

\* lines 497-499: a tie makes no executor; the cycle is over
TieReturns ==
    /\ pool.phase = "fetched"
    /\ pool' = NoPool("idle")
    /\ UNCHANGED loop

\* lines 443-444 / 510-511: the handler makes its executor and submits one
\* svc_worker per product
SubmitChecks(n) ==
    /\ pool.phase = "fetched"
    /\ pool' = [NoPool("svc") EXCEPT !.queued = n]
    /\ UNCHANGED loop

\* the handler's executor is left; the handler ends, the loop sleeps and
\* starts the next cycle
JoinChecks ==
    /\ pool.phase = "svc"
    /\ PoolShutDown
    /\ pool' = NoPool("idle")
    /\ UNCHANGED loop

PoolNext ==
    \/ \E n \in 0 .. MaxPages : SubmitPages(n)
    \/ WorkerStarts
    \/ WorkerEnds
    \/ JoinPages
    \/ TieReturns
    \/ \E n \in 0 .. MaxItems : SubmitChecks(n)
    \/ JoinChecks

\* the cycles of the loop, seen as the executors they make
PoolSpec == Init /\ [][PoolNext]_vars


\* ------------------------------------------------------------ telegram_send_*
\* telegram_send_text (lines 147-168) and telegram_send_photo (lines 170-191)
\* are the same loop around a different request. tg.outcomes lists what the
\* attempts made so far were answered with.

\* the calls the program makes: the startup text (line 539), the Stock Update
\* text (line 428), an alert as a photo (line 464) or as a text (line 467)
Calls == {"boot_text", "header_text", "alert_photo", "alert_text"}

\* requests.post: status 200, another status, or an exception
PostOutcomes == {"200", "non200", "exception"}

MoreAttempts_offByOne(attempt) == attempt <= TG_RETRY_LIMIT

\* lines 157, 180: for attempt in range(TG_RETRY_LIMIT)
MoreAttempts(attempt) == attempt < TG_RETRY_LIMIT

\* lines 148 / 171 and 140-145: the call begins by taking the next token
TgCall(c) ==
    /\ tg.at = "idle"
    /\ rr_index' = (rr_index + 1) % NumBotTokens
    /\ tg' = [NoSend EXCEPT !.call = c, !.at = "loop"]
    /\ UNCHANGED <<loop_only, overlap, pool, pager>>

\* lines 157, 167-168 / 180, 190-191: the next attempt, or return False
TgLoop ==
    /\ tg.at = "loop"
    /\ tg' = IF MoreAttempts(tg.attempt)
             THEN [tg EXCEPT !.at = "post"]
             ELSE [tg EXCEPT !.at = "returned", !.ret = "False"]
    /\ UNCHANGED <<loop_only, overlap, pool, pager, rr_index>>

\* lines 158-164 / 181-187: one requests.post; status 200 returns True, any
\* other answer and any exception is logged
TgPost(o) ==
    /\ tg.at = "post"
    /\ tg' = IF o = "200"
             THEN [tg EXCEPT !.outcomes = Append(@, o),
                             !.at = "returned", !.ret = "True"]
             ELSE [tg EXCEPT !.outcomes = Append(@, o), !.at = "sleep"]
    /\ UNCHANGED <<loop_only, overlap, pool, pager, rr_index>>

\* lines 165 / 188: time.sleep(TG_RETRY_SLEEP_SEC)
TgBackoff ==
    /\ tg.at = "sleep"
    /\ tg' = [tg EXCEPT !.attempt = @ + 1, !.at = "loop"]
    /\ UNCHANGED <<loop_only, overlap, pool, pager, rr_index>>

\* the caller has the result and goes on
TgReturn ==
    /\ tg.at = "returned"
    /\ tg' = NoSend
    /\ UNCHANGED <<loop_only, overlap, pool, pager, rr_index>>

SendNext ==
    \/ \E c \in Calls : TgCall(c)
    \/ TgLoop
    \/ \E o \in PostOutcomes : TgPost(o)
    \/ TgBackoff
    \/ TgReturn

\* The sends of the program one after the other. requests.post is given a
\* timeout and time.sleep returns, so a send that can take a step takes it.
SendSpec == Init /\ [][SendNext]_vars /\ WF_vars(SendNext)


\* ------------------------------------------------------------ fetch_all_products
\* fetch_all_products (lines 236-267) with every plp_fetch_page call counted
\* by the page index it asks for.

\* what a fetch leaves alone
paged == <<loop_only, overlap, pool, sender>>

PaginationKeys == {"totalResults", "totalPages"}

\* the "pagination" object of page 0 (line 233): each of the two keys may be
\* missing, and the server may report any integer
Paginations ==
    {p \in UNION {[D -> (0 - 1) .. MaxCatalog] : D \in SUBSET PaginationKeys} :
        "totalPages" \in DOMAIN p => p["totalPages"] <= MaxTotalPages}

\* dict.get(key, default)
Get(p, key, default) == IF key \in DOMAIN p THEN p[key] ELSE default

Max(a, b) == IF a >= b THEN a ELSE b

\* lines 242-245: the index of the last page to ask for
LastPageIndex(total, pages) ==
    IF pages <= 0 THEN Max((total - 1) \div DEFAULT_PAGE_SIZE, 0)
    ELSE pages

\* line 237: the request for page 0 raises (a 403, another HTTP error, a
\* body that is not JSON), or lines 239-240 raise on a value int() refuses;
\* fetch_all_products is left by the exception
Page0Raises ==
    /\ fetch.at = "call"
    /\ fetch' = [fetch EXCEPT !.at = "raised", !.requested[0] = @ + 1]
    /\ UNCHANGED paged

\* lines 237-249: page 0 comes back with len0 products and pagination0
Page0Returns(pagination0, len0) ==
    /\ fetch.at = "call"
    /\ LET total == Get(pagination0, "totalResults", len0)
           pages == Get(pagination0, "totalPages", 0)
           last  == LastPageIndex(total, pages)
       IN  fetch' = [at |-> IF 1 .. last = {} THEN "return" ELSE "pool",
                     total_results_now |-> total,
                     total_pages_value |-> pages,
                     last_page_index |-> last,
                     remaining_pages |-> 1 .. last,
                     requested |-> [fetch.requested EXCEPT ![0] = @ + 1]]
    /\ UNCHANGED paged

\* lines 251-257: the page_worker of page pg makes its request; whether it
\* returns products or raises, the request has been made. The workers run
\* in up to MAX_PAGE_FETCH_WORKERS threads, so in any order.
PageWorker(pg) ==
    /\ fetch.at = "pool"
    /\ pg \in fetch.remaining_pages
    /\ fetch' = [fetch EXCEPT !.remaining_pages = @ \ {pg},
                              !.requested[pg] = @ + 1]
    /\ UNCHANGED paged

\* lines 259-265: the with block is left once every page_worker has run
PagesJoined ==
    /\ fetch.at = "pool"
    /\ fetch.remaining_pages = {}
    /\ fetch' = [fetch EXCEPT !.at = "return"]
    /\ UNCHANGED paged

\* line 267 (or the exception of page 0) ends the call; the next cycle of
\* the loop calls fetch_all_products afresh
FetchOver ==
    /\ fetch.at \in {"return", "raised"}
    /\ fetch' = NoFetch
    /\ UNCHANGED paged

PageNext ==
    \/ Page0Raises
    \/ \E pagination0 \in Paginations, len0 \in 0 .. DEFAULT_PAGE_SIZE :
          Page0Returns(pagination0, len0)
    \/ \E pg \in PageIndexes : PageWorker(pg)
    \/ PagesJoined
    \/ FetchOver

\* the fetches of the loop, one after the other
PageSpec == Init /\ [][PageNext]_vars


\* ------------------------------------------------------------ vocabulary
\* the cycle has fetched the catalog (page 0 came back)
Fetched == pc \notin {"boot", "fetch"} /\ how # "fetchfail"

\* the ids whose check resolved deliverable = True in this cycle
ResolvedTrue == {products[i] : i \in {j \in DOMAIN futs : futs[j] = "T"}}

AggBeforeItems ==
    \A i \in ItemNotes : \E j \in AggNotes : j < i

\* ------------------------------------------------------------ claims
\* C1 (No-duplicate): an identifier that is in prev_deliverable at the start
\* of a cycle gets no per-item notification in that cycle, also when its
\* check resolves True again.
C1_NoDuplicate ==
    \A i \in ItemNotes : notes[i].code \notin cyc.prev

\* a wave has ended in which an id of the starting snapshot resolved True again
C1_Witness ==
    /\ Completed
    /\ AggNotes # {}
    /\ \E i \in DOMAIN futs :
          futs[i] = "T" /\ products[i] \in cyc.prev /\ products[i] \notin Noted

\* C2 as claimed: after every completed cycle, a tie included, prev_deliverable
\* is exactly the set of ids resolved True in that cycle.
C2_ReplacedEveryCycle ==
    Completed => set(db_cache.prev) = ResolvedTrue

\* C2 amended (Replacement not accumulation): after a completed wave or shrink
\* cycle prev_deliverable is exactly the set of ids resolved True in that
\* cycle, and the file holds that snapshot unless an I/O error was raised;
\* after a tie it is the set the cycle started with.
C2_Replacement ==
    Completed =>
        IF total_results_now = cyc.ltr
        THEN set(db_cache.prev) = cyc.prev
        ELSE /\ set(db_cache.prev) = ResolvedTrue
             /\ ioerrs = 0 => file = Stored(db_cache)

\* a cycle that ran checks has ended and dropped an id of the old snapshot
C2_Witness ==
    /\ Completed
    /\ total_results_now # cyc.ltr
    /\ \E c \in cyc.prev : c \notin set(db_cache.prev)
    /\ set(db_cache.prev) # {}

\* C3 (Tie is idle): the cycle that observes the stored total again is over in
\* that step: no check is submitted, nothing is notified, db_save is not
\* called, and the cache and both files are what they were.
C3_TieIsIdle ==
    [][(/\ pc = "fetch"
        /\ pc' # "boot"
        /\ how' # "fetchfail"
        /\ total_results_now' = db_cache.ltr)
       => (/\ pc' = "sleep"
           /\ futs' = <<>>
           /\ notes' = <<>>
           /\ saves' = 0
           /\ db_cache' = db_cache
           /\ file' = file
           /\ tmp' = tmp)]_vars

\* a tie has ended, with products fetched and a snapshot that is not empty
C3_Witness ==
    /\ Completed
    /\ total_results_now = cyc.ltr
    /\ products # <<>>
    /\ cyc.prev # {}
    /\ notes = <<>>

\* C4 as claimed: at every notification attempt of a wave the new total is on
\* the disk, and the aggregate attempt precedes every per-item attempt.
C4_PersistedFirst ==
    /\ \A i \in DOMAIN notes : notes[i].disk = total_results_now
    /\ AggBeforeItems

\* C4 amended (Wave ordering): at every notification attempt of a wave the new
\* total is in db_cache and db_save has been called for it; it is on the disk
\* unless an I/O error was raised; the aggregate attempt precedes every
\* per-item attempt.
C4_WaveOrdering ==
    /\ \A i \in DOMAIN notes :
          /\ notes[i].mem = total_results_now
          /\ notes[i].saved >= 1
          /\ ioerrs = 0 => notes[i].disk = total_results_now
    /\ AggBeforeItems

\* a wave has attempted the aggregate and then a per-item notification, with
\* the new total on the disk before both
C4_Witness ==
    /\ Completed
    /\ ItemNotes # {}
    /\ notes[1].kind = "agg"
    /\ \A i \in DOMAIN notes : notes[i].disk = total_results_now

\* C5 (Unknown is not announced): an item whose check resolved unknown, or
\* whose worker raised, has no per-item notification, and its id is in the
\* new deliverable set, and in the snapshot that replaces the old one, only
\* if another item with that id resolved True.
C5_UnknownNotAnnounced ==
    \A i \in DOMAIN futs :
        futs[i] \in {"U", "X"} =>
            /\ \A n \in ItemNotes : notes[n].idx # i
            /\ products[i] \in current_deliverable_set
                   => products[i] \in ResolvedTrue
            /\ (Completed /\ products[i] \in set(db_cache.prev))
                   => products[i] \in ResolvedTrue

\* a wave has ended in which a product with a code, not in the old snapshot,
\* resolved unknown
C5_Witness ==
    /\ Completed
    /\ AggNotes # {}
    /\ \E i \in DOMAIN futs :
          /\ futs[i] = "U"
          /\ products[i] # 0
          /\ products[i] \notin cyc.prev
          /\ products[i] \notin set(db_cache.prev)

\* C6 (Aggregate iff wave): a cycle attempts the aggregate notification at
\* most once; a cycle whose total is not above the stored one attempts none;
\* a cycle whose total is above it has attempted exactly one when it ends,
\* whatever the checks answered and however the handler ended.
C6_AggregateIffWave ==
    /\ Cardinality(AggNotes) <= 1
    /\ (Fetched /\ total_results_now <= cyc.ltr) => AggNotes = {}
    /\ (Fetched /\ pc = "sleep" /\ total_results_now > cyc.ltr)
           => Cardinality(AggNotes) = 1

\* a wave has ended with products fetched, none of them deliverable
C6_Witness ==
    /\ Completed
    /\ total_results_now > cyc.ltr
    /\ products # <<>>
    /\ ResolvedTrue = {}
    /\ Cardinality(AggNotes) = 1

\* C7 as claimed: an id announced in one cycle is announced in no later cycle.
C7_NeverAgain ==
    \A i \in ItemNotes : notes[i].code \notin announcedPrior

\* C7 amended (No re-announcement while recorded): an id announced in a cycle
\* that ran to its end is in prev_deliverable when the cycle ends, and no
\* later cycle that starts with it still in prev_deliverable announces it.
C7_NotWhileRecorded ==
    /\ Completed => Noted \subseteq set(db_cache.prev)
    /\ \A i \in ItemNotes :
          notes[i].code \notin (announcedPrior \cap cyc.prev)

\* a wave has ended in which an id announced earlier, and still recorded,
\* resolved True again without a notification
C7_Witness ==
    /\ Completed
    /\ AggNotes # {}
    /\ \E i \in DOMAIN futs :
          /\ futs[i] = "T"
          /\ products[i] \in announcedPrior \cap cyc.prev
          /\ products[i] \notin Noted

\* C8 (First-page failure): the cycle whose page 0 fetch fails is over in that
\* step: no check, no notification, no db_save, cache and files untouched;
\* the next cycle starts with the snapshot the failed one started with.
C8_FirstPageFailure ==
    [][/\ (pc = "fetch" /\ how' = "fetchfail")
           => (/\ pc' = "sleep"
               /\ futs' = <<>>
               /\ notes' = <<>>
               /\ saves' = 0
               /\ db_cache' = db_cache
               /\ file' = file
               /\ tmp' = tmp)
       /\ (pc = "sleep" /\ how = "fetchfail" /\ pc' = "fetch")
           => (cyc'.prev = cyc.prev /\ cyc'.ltr = cyc.ltr)]_vars

\* a cycle was aborted by the page 0 failure while a snapshot was stored
C8_Witness ==
    /\ pc = "sleep"
    /\ how = "fetchfail"
    /\ cyc.prev # {}
    /\ cyc.ltr > 0
    /\ file = Stored(db_cache)

\* C9 (Poll loop isolation): a cycle always starts again, whatever happened in
\* the one before, and a cycle starts only from the sleep of the loop (or the
\* start of the process) with no worker of the previous fan-out running.
C9_PollLoopIsolation ==
    /\ []<>(pc = "fetch")
    /\ [][pc' = "fetch" => (pc \in {"sleep", "boot"} /\ NoneRunning)]_vars

\* a cycle has ended by an exception raised inside handle_wave
C9_Witness ==
    /\ pc = "sleep"
    /\ how = "raised"
    /\ \E i \in DOMAIN futs : futs[i] = "D"

\* C10 as claimed: once a wave has put total T on the disk, no later cycle
\* that observes T attempts any notification.
C10_NeverRetriggered ==
    (Fetched /\ cyc.waved # None /\ total_results_now = cyc.waved)
        => notes = <<>>

\* C10 amended (A wave is triggered once): once a wave has put total T on the
\* disk, a later cycle that finds T still stored (in the cache, or after a
\* restart on the disk) and observes T attempts no notification.
C10_WaveTriggeredOnce ==
    (/\ Fetched
     /\ cyc.waved # None
     /\ cyc.stored = cyc.waved
     /\ total_results_now = cyc.waved)
        => notes = <<>>

\* the first cycle of a restarted process has observed the total of the wave
\* the process was killed in (the wave's final snapshot never reached the disk)
C10_Witness ==
    /\ Completed
    /\ cyc.boot
    /\ cyc.waved # None
    /\ total_results_now = cyc.waved
    /\ ioerrs = 0
    /\ tmp = Leftover
    /\ notes = <<>>

\* C11 (Atomic save): DB_FILE never holds a partly written record: it changes
\* only in the rename step of db_save, and then to the complete snapshot
\* db_save was given, also when the process is killed or an I/O error is
\* raised inside db_save; and the process starts with the record DB_FILE
\* holds, or with the zero snapshot when DB_FILE is missing or unreadable.
C11_AtomicSave ==
    /\ [](file.st \in {"missing", "unreadable", "ok"})
    /\ [][/\ (file' # file)
                 => (pc = "save_replace" /\ file' = Stored(db_cache))
          /\ (pc = "boot" /\ pc' = "fetch")
                 => (db_cache' = IF file.st = "ok" THEN file.db
                                                  ELSE ZeroDb)]_vars

\* the process was killed inside a db_save that was replacing a stored
\* snapshot, and is about to load the store
C11_Witness ==
    /\ pc = "boot"
    /\ ioerrs = 0
    /\ tmp = Leftover
    /\ file.st = "ok"
    /\ file.db.ltr > 0
    /\ file.db.prev # <<>>

\* C12 as claimed: in a shrink cycle every id that resolves True and was not
\* in prev_deliverable at the start of the cycle gets a per-item notification.
C12_ShrinkAnnounces ==
    (Completed /\ total_results_now < cyc.ltr)
        => (ResolvedTrue \ cyc.prev) \subseteq Noted

\* C12 amended (Shrink cycles are quiet): a shrink cycle attempts no
\* notification at all and records every id that resolves True, so an id can
\* enter prev_deliverable unannounced; in a wave that ran to its end every id
\* that entered prev_deliverable had its per-item notification attempted.
C12_ShrinkIsQuiet ==
    /\ (Fetched /\ total_results_now < cyc.ltr) => notes = <<>>
    /\ (Completed /\ total_results_now < cyc.ltr)
           => set(db_cache.prev) = ResolvedTrue
    /\ (Completed /\ total_results_now > cyc.ltr)
           => (set(db_cache.prev) \ cyc.prev) \subseteq Noted

\* a shrink cycle has ended and recorded an id that was not in the snapshot
\* it started with
C12_Witness ==
    /\ Completed
    /\ total_results_now < cyc.ltr
    /\ set(db_cache.prev) \ cyc.prev # {}
    /\ file = Stored(db_cache)
    /\ notes = <<>>

\* the snapshot a cycle that ran its checks would store, had they answered f
SnapshotOf(f) ==
    db_replace_prev_deliverable_set(
        db_cache, {products[i] : i \in {j \in DOMAIN f : f[j] = "T"}})

\* a cycle that ran checks (a wave or a shrink) has ended
RanChecks == Completed /\ total_results_now # cyc.ltr

\* the checks that resolved unknown for an id of the starting snapshot
UnknownOfPrev ==
    {i \in DOMAIN futs : futs[i] = "U" /\ products[i] \in cyc.prev}

\* C13 as claimed: an id of the starting snapshot whose check resolves unknown
\* is not dropped as one that resolved False would be: it stays in
\* prev_deliverable, and the snapshot stored differs from the one an explicit
\* False would have produced.
C13_UnknownKeepsId ==
    RanChecks =>
        \A i \in UnknownOfPrev :
            /\ products[i] \in set(db_cache.prev)
            /\ db_cache.prev # SnapshotOf([futs EXCEPT ![i] = "F"]).prev

\* C13 amended (Unknown is dropped like False): an id of the starting snapshot
\* whose check resolves unknown gets no notification, but the snapshot stored
\* is the one an explicit False would have produced: the id is in it only if
\* another item with that id resolved True; and a wave that runs to its end
\* announces every id that resolves True and is not in the snapshot it
\* started with, an id dropped this way included.
C13_UnknownDroppedLikeFalse ==
    /\ RanChecks =>
           \A i \in UnknownOfPrev :
               /\ \A n \in ItemNotes : notes[n].idx # i
               /\ db_cache = SnapshotOf([futs EXCEPT ![i] = "F"])
               /\ products[i] \in set(db_cache.prev)
                      => \E j \in DOMAIN futs :
                            j # i /\ products[j] = products[i] /\ futs[j] = "T"
    /\ (Completed /\ total_results_now > cyc.ltr)
           => (ResolvedTrue \ cyc.prev) \subseteq Noted

\* a cycle has ended in which an id of the starting snapshot resolved unknown
\* and is no longer recorded, while another id is
C13_Witness ==
    /\ RanChecks
    /\ \E i \in UnknownOfPrev : products[i] \notin set(db_cache.prev)
    /\ set(db_cache.prev) # {}

\* C14 (Duplicate identifiers within a cycle): a cycle attempts at most one
\* per-item notification for an id, also when the fetched list holds the id
\* several times and several of those checks resolve True.
C14_OncePerCycle ==
    \A i, j \in ItemNotes : notes[i].code = notes[j].code => i = j

\* a wave has ended in which two items with the same id resolved True and the
\* id was announced
C14_Witness ==
    /\ Completed
    /\ \E i, j \in DOMAIN futs :
          /\ i # j
          /\ products[i] = products[j]
          /\ futs[i] = "T" /\ futs[j] = "T"
          /\ products[i] \in Noted

\* an overlapped cycle has begun to access the snapshot and is not over
MidCycle(t) == cy[t].secs > 0 /\ cy[t].at # "done"

\* C15 as claimed: the snapshot accesses of one cycle are one critical
\* section: two overlapped cycles are never both between their first and
\* their last access, and never both send the Stock Update after reading
\* the same stored total and observing the same new total.
C15_OneCriticalSection ==
    \A t1, t2 \in Threads :
        t1 # t2 =>
            /\ ~(MidCycle(t1) /\ MidCycle(t2))
            /\ ~(/\ cy[t1].agg /\ cy[t2].agg
                  /\ cy[t1].prev_total = cy[t2].prev_total
                  /\ cy[t1].now = cy[t2].now)

\* C15 amended (A lock per access, not per cycle): every snapshot read or
\* write of a cycle, db_save included, is made inside a with db_lock block
\* and at most one thread is inside such a block, but a cycle enters up to
\* four blocks and releases the lock between them.
C15_LockPerAccess ==
    /\ [](/\ \A t1, t2 \in Threads :
                (cy[t1].locked /\ cy[t2].locked) => t1 = t2
          /\ \A t \in Threads : cy[t].locked => db_lock = t
          /\ \A t \in Threads : cy[t].secs <= 4)
    /\ [][/\ (db_cache' # db_cache \/ file' # file \/ tmp' # tmp)
                 => (db_lock # 0 /\ cy[db_lock].locked /\ db_lock' = 0)
          /\ \A t \in Threads :
                 (\/ cy'[t].prev_total # cy[t].prev_total
                  \/ cy'[t].prev_set # cy[t].prev_set)
                 => (cy[t].locked \/ cy'[t] = FreshCycle)]_vars

\* two overlapped waves have sent the Stock Update for the same increase; one
\* is storing its snapshot while the other waits for the lock to store its own
C15_Witness ==
    \E t1, t2 \in Threads :
        /\ t1 # t2
        /\ cy[t1].agg /\ cy[t2].agg
        /\ cy[t1].now = cy[t2].now
        /\ cy[t1].prev_total = cy[t2].prev_total
        /\ Inside(t1, "481")
        /\ cy[t2].at = "481" /\ ~cy[t2].locked

\* the main thread is consuming the futures of a fan-out
InFanOut == pc \in {"wave_fan", "nw_fan"}

\* C16 (Fan-out barrier with failure isolation): a fan-out holds one check
\* per fetched item; prev_deliverable is replaced only in the step that
\* leaves the fan-out for db_save, and then no check is still running; a
\* check that raises leaves the handler in its fan-out with its results so
\* far untouched, and the cycle that ends well stores every id that resolved
\* True beside it.
C16_FanOutBarrier ==
    /\ [](InFanOut => DOMAIN futs = DOMAIN products)
    /\ [](RanChecks => (NoneRunning /\ set(db_cache.prev) = ResolvedTrue))
    /\ [][/\ (InFanOut /\ pc' = "save_write")
                 => (NoneRunning /\ DOMAIN futs = DOMAIN products)
          /\ (db_cache'.prev # db_cache.prev /\ pc # "boot" /\ pc' # "boot")
                 => (InFanOut /\ pc' = "save_write")
          /\ \A i \in DOMAIN futs :
                 (/\ pc' # "boot"
                  /\ i \in DOMAIN futs'
                  /\ futs[i] = "run" /\ futs'[i] = "X")
                 => (/\ pc' = pc
                     /\ current_deliverable_set' = current_deliverable_set
                     /\ notes' = notes
                     /\ \A j \in DOMAIN futs : j # i => futs'[j] = futs[j])]_vars

\* a wave has ended in which one check raised and another item resolved True,
\* was announced and is recorded
C16_Witness ==
    /\ Completed
    /\ \E i, j \in DOMAIN futs :
          /\ futs[i] = "X"
          /\ futs[j] = "T"
          /\ products[j] \in Noted
          /\ products[j] \in set(db_cache.prev)

\* C17 (Bounded fan-out): at most SVC_MAX_WORKERS availability checks and at
\* most MAX_PAGE_FETCH_WORKERS page fetches are in flight at any time, and
\* an executor is left, and the next cycle begun, only when none of its work
\* items is queued or running.
C17_BoundedFanOut ==
    /\ [](/\ pool.phase = "svc" => pool.running <= SVC_MAX_WORKERS
          /\ pool.phase = "pages" => pool.running <= MAX_PAGE_FETCH_WORKERS
          /\ pool.phase \in {"idle", "fetched"}
                 => (pool.running = 0 /\ pool.queued = 0))
    /\ [][(pool'.phase # pool.phase)
             => (pool.running = 0 /\ pool.queued = 0)]_vars

\* the handler's executor is at its cap with more products waiting
C17_Witness ==
    /\ pool.phase = "svc"
    /\ pool.running = SVC_MAX_WORKERS
    /\ pool.queued > 0
    /\ pool.finished > 0

\* the answers of the attempts before the latest one
EarlierOutcomes == {tg.outcomes[i] : i \in 1 .. Len(tg.outcomes) - 1}

\* C18 (Bounded notification retry): a send makes at most TG_RETRY_LIMIT
\* attempts and none after one answered 200; it returns True exactly when
\* its latest attempt was answered 200 and False exactly when
\* TG_RETRY_LIMIT attempts have failed; it never ends another way, and every
\* send that has begun returns.
C18_BoundedRetry ==
    /\ [](/\ Len(tg.outcomes) <= TG_RETRY_LIMIT
          /\ "200" \notin EarlierOutcomes
          /\ tg.at \in {"idle", "loop", "post", "sleep", "returned"}
          /\ tg.at = "returned"
                => /\ tg.ret \in {"True", "False"}
                   /\ tg.ret = "True"
                         <=> (/\ tg.outcomes # <<>>
                              /\ tg.outcomes[Len(tg.outcomes)] = "200")
                   /\ tg.ret = "False"
                         <=> (/\ Len(tg.outcomes) = TG_RETRY_LIMIT
                              /\ \A i \in DOMAIN tg.outcomes :
                                     tg.outcomes[i] # "200")
          /\ tg.at # "returned" => tg.ret = "none")
    /\ (tg.at # "idle") ~> (tg.at = "returned")

\* a photo send has returned False after attempts that were refused and
\* attempts that raised
C18_Witness ==
    /\ tg.call = "alert_photo"
    /\ tg.at = "returned"
    /\ tg.ret = "False"
    /\ Len(tg.outcomes) = TG_RETRY_LIMIT
    /\ "non200" \in EarlierOutcomes
    /\ "exception" \in EarlierOutcomes

\* C19 (Delivery outcome does not affect state): what a wave that runs to
\* its end stores is fixed by the observed total and the answers of the
\* checks alone, whatever its sends returned: every product was checked, the
\* snapshot holds the observed total and exactly the ids that resolved True,
\* so every id whose alert was attempted is recorded, delivered or not; the
\* next cycle of the loop starts with that id recorded, and no cycle
\* announces an id it started with.
C19_DeliveryOutcomeIgnored ==
    /\ []((Completed /\ total_results_now > cyc.ltr)
             => /\ DOMAIN futs = DOMAIN products
                /\ NoneRunning
                /\ db_cache = [ltr |-> total_results_now,
                               prev |-> sorted(ResolvedTrue)]
                /\ \A n \in ItemNotes :
                       notes[n].code \in set(db_cache.prev)
                /\ ioerrs = 0 => file = Stored(db_cache))
    /\ [](\A n \in ItemNotes : notes[n].code \notin cyc.prev)
    /\ [][(Completed /\ pc' = "fetch") => Noted \subseteq cyc'.prev]_vars

\* a wave has ended whose Stock Update and whose alert for an id both failed
\* all retries; the id is in the snapshot on the disk
C19_Witness ==
    /\ Completed
    /\ \E a \in AggNotes : ~notes[a].ok
    /\ \E n \in ItemNotes :
          /\ ~notes[n].ok
          /\ notes[n].code \in set(db_cache.prev)
    /\ file = Stored(db_cache)

\* C20 (lastTotalCount tracks the last observation): when a cycle that
\* fetched the catalog is over, last_total_results is the total it observed:
\* above the one the cycle started with after a wave, below it after a
\* shrink, the same after a tie.
C20_TracksLastObservation ==
    (pc = "sleep" /\ how # "fetchfail")
        => /\ db_get_last_total_results(db_cache) = total_results_now
           /\ total_results_now > cyc.ltr
                  => db_get_last_total_results(db_cache) > cyc.ltr
           /\ total_results_now < cyc.ltr
                  => db_get_last_total_results(db_cache) < cyc.ltr
           /\ total_results_now = cyc.ltr
                  => db_get_last_total_results(db_cache) = cyc.ltr

\* the number of catalog pages page 0 told of: the reported totalPages when
\* it is positive, otherwise ceil(totalResults / DEFAULT_PAGE_SIZE), at
\* least 1
CatalogPages ==
    IF fetch.total_pages_value > 0 THEN fetch.total_pages_value
    ELSE Max((fetch.total_results_now + DEFAULT_PAGE_SIZE - 1)
                 \div DEFAULT_PAGE_SIZE, 1)

\* C21 (Page coverage): when fetch_all_products returns, it has requested
\* each page index 0 .. P-1 exactly once, P being the number of catalog
\* pages page 0 told of, and no index beyond the last catalog page.
C21_PageCoverage ==
    fetch.at = "return"
        => /\ \A i \in PageIndexes :
                  i < CatalogPages => fetch.requested[i] = 1
           /\ \A i \in PageIndexes :
                  i >= CatalogPages => fetch.requested[i] = 0

====
